---- MODULE Spec2Model ----
(***************************************************************************)
(* Model of the display control center: DisplaySettings::getMonitors and   *)
(* DisplaySettings::applyMonitor (src/src/display_settings.cpp).           *)
(*                                                                         *)
(* Representation.                                                         *)
(*  - A JSON scalar is a record [t, n, s]: t is the JSON type, n the       *)
(*    number, s the string.  A key that is missing from an object is the   *)
(*    value Absent.  Real numbers (JSON floats, C++ double) are fixed      *)
(*    point, in hundredths: 59.95 is 5995.                                 *)
(*  - The text a process writes is a string; the document json::parse      *)
(*    reads from the text of the query command is carried next to it       *)
(*    (run.doc), the parser itself is the nlohmann library.                *)
(*  - The variables hold one call of the public interface: its arguments,   *)
(*    what the process runner does, and what comes back.                   *)
(***************************************************************************)
EXTENDS Integers, Sequences, FiniteSets, TLC

\* Longest array of monitors hyprctl reports.
MaxMonitors == 2
\* Longest "modes" array of one monitor.
MaxModes == 2

----------------------------------------------------------------------------
(* JSON values                                                             *)

Absent    == [t |-> "absent", n |-> 0, s |-> ""]
JNull     == [t |-> "null",   n |-> 0, s |-> ""]
JInt(i)   == [t |-> "int",    n |-> i, s |-> ""]
\* h is the number in hundredths
JFloat(h) == [t |-> "float",  n |-> h, s |-> ""]
JStr(str) == [t |-> "string", n |-> 0, s |-> str]
JBool(b)  == [t |-> "bool",   n |-> IF b THEN 1 ELSE 0, s |-> ""]

\* basic_json::contains(key): false on anything that is not an object
contains(j, key) == j.t = "object" /\ j[key].t # "absent"

\* static_cast<int>(double): the fraction is dropped, toward zero
static_cast_int(h) == IF h >= 0 THEN h \div 100 ELSE -((-h) \div 100)

\* get<int>() accepts integers, floats and booleans (type_error 302 otherwise)
get_int_throws(v) == v.t \notin {"int", "float", "bool"}
get_int(v) == IF v.t = "float" THEN static_cast_int(v.n) ELSE v.n

\* get<double>() accepts integers and floats only (type_error 302 otherwise)
get_double_throws(v) == v.t \notin {"int", "float"}
get_double(v) == IF v.t = "float" THEN v.n ELSE v.n * 100

\* basic_json::value(key, default) with an int default: type_error 306 on a
\* non-object, type_error 302 on a value that does not convert
value_int_throws(j, key) ==
    \/ j.t # "object"
    \/ contains(j, key) /\ get_int_throws(j[key])
value_int(j, key, default) ==
    IF contains(j, key) THEN get_int(j[key]) ELSE default

\* basic_json::value(key, default) with a double default
value_double_throws(j, key) ==
    \/ j.t # "object"
    \/ contains(j, key) /\ get_double_throws(j[key])
value_double(j, key, default) ==
    IF contains(j, key) THEN get_double(j[key]) ELSE default

----------------------------------------------------------------------------
(* parseMonitor                                                            *)

\* struct DisplayMode, default constructed
DisplayMode == [width |-> 0, height |-> 0, refreshRate |-> 0]
\* struct MonitorInfo, default constructed
MonitorInfo == [name |-> "", x |-> 0, y |-> 0, scale |-> 100,
                modes |-> <<>>, current |-> DisplayMode]

\* refreshRate that looks at "refresh_rate" first
refreshRate_olderFirst(j) ==
    IF contains(j, "refresh_rate") THEN static_cast_int(get_double(j.refresh_rate))
    ELSE IF contains(j, "refreshRate") THEN static_cast_int(get_double(j.refreshRate))
    ELSE 60

\* the refresh rate of a monitor or of a mode: "refreshRate", else
\* "refresh_rate", else 60
refreshRate_throws(j) ==
    IF contains(j, "refreshRate") THEN get_double_throws(j.refreshRate)
    ELSE IF contains(j, "refresh_rate") THEN get_double_throws(j.refresh_rate)
    ELSE FALSE
refreshRate(j) ==
    IF contains(j, "refreshRate") THEN static_cast_int(get_double(j.refreshRate))
    ELSE IF contains(j, "refresh_rate") THEN static_cast_int(get_double(j.refresh_rate))
    ELSE 60

\* one turn of the loop over j["modes"], up to the validity test
mode_throws(m) ==
    \/ value_int_throws(m, "width")
    \/ value_int_throws(m, "height")
    \/ refreshRate_throws(m)
mode(m) == [width       |-> value_int(m, "width", 0),
            height      |-> value_int(m, "height", 0),
            refreshRate |-> refreshRate(m)]

\* validMode that lets zeros through
validMode_nonNegative(d) == d.width >= 0 /\ d.height >= 0 /\ d.refreshRate >= 0

\* the test that lets a mode into out.modes
validMode(d) == d.width > 0 /\ d.height > 0 /\ d.refreshRate > 0

\* out.modes after the loop over j["modes"]
parsedModes(j) ==
    IF contains(j, "modes") /\ j.modes.t = "array"
    THEN SelectSeq([i \in 1..Len(j.modes.items) |-> mode(j.modes.items[i])],
                   validMode)
    ELSE <<>>
modes_throw(j) ==
    /\ contains(j, "modes") /\ j.modes.t = "array"
    /\ \E i \in 1..Len(j.modes.items) : mode_throws(j.modes.items[i])

\* out.current
currentMode(j) == [width       |-> value_int(j, "width", 0),
                   height      |-> value_int(j, "height", 0),
                   refreshRate |-> refreshRate(j)]

\* modesWithFallback without the fallback
modesWithFallback_none(parsed, current) == parsed

\* out.modes when parseMonitor returns: the current mode is the fallback
modesWithFallback(parsed, current) ==
    IF parsed = <<>> /\ validMode(current) THEN <<current>> ELSE parsed

\* the name test at the top of parseMonitor
hasName(j) == contains(j, "name") /\ j.name.t = "string"

\* an exception leaves parseMonitor
parseMonitor_throws(j) ==
    /\ hasName(j)
    /\ \/ value_int_throws(j, "x")
       \/ value_int_throws(j, "y")
       \/ value_double_throws(j, "scale")
       \/ value_int_throws(j, "width")
       \/ value_int_throws(j, "height")
       \/ refreshRate_throws(j)
       \/ modes_throw(j)

\* parseMonitor(j, out): ret is "false" (no name), "throw" (a json exception
\* leaves the function) or "true", and then out is the MonitorInfo
parseMonitor(j) ==
    IF ~hasName(j) THEN [ret |-> "false", out |-> MonitorInfo]
    ELSE IF parseMonitor_throws(j) THEN [ret |-> "throw", out |-> MonitorInfo]
    ELSE [ret |-> "true",
          out |-> [name    |-> j.name.s,
                   x       |-> value_int(j, "x", 0),
                   y       |-> value_int(j, "y", 0),
                   scale   |-> value_double(j, "scale", 100),
                   modes   |-> modesWithFallback(parsedModes(j), currentMode(j)),
                   current |-> currentMode(j)]]

----------------------------------------------------------------------------
(* getMonitors                                                             *)

\* returnsEarly without the test of the exit status
returnsEarly_anyExitStatus(run) ==
    \/ run.spawn = "error"
    \/ run.stdout_str = ""
    \/ ~run.doc.parses
    \/ run.doc.root.t # "array"

\* the early returns of getMonitors: spawn failure, exit status, empty
\* output, text that is not JSON, a root that is not an array
returnsEarly(run) ==
    \/ run.spawn = "error"
    \/ run.exit_status # 0 \/ run.stdout_str = ""
    \/ ~run.doc.parses
    \/ run.doc.root.t # "array"

\* the loop over the array: parseMonitor on every element
parsedElements(items) == [i \in 1..Len(items) |-> parseMonitor(items[i])]
isTrue(p) == p.ret = "true"
outOf(ps) == [i \in 1..Len(ps) |-> ps[i].out]

\* getMonitors(): raised says that an exception reached the caller
getMonitors(run) ==
    IF returnsEarly(run) THEN [raised |-> FALSE, result |-> <<>>]
    ELSE LET ps == parsedElements(run.doc.root.items)
         IN  IF \E i \in 1..Len(ps) : ps[i].ret = "throw"
             THEN [raised |-> TRUE, result |-> <<>>]
             ELSE [raised |-> FALSE, result |-> outOf(SelectSeq(ps, isTrue))]

----------------------------------------------------------------------------
(* applyMonitor                                                            *)

Digit(d) == CASE d = 0 -> "0" [] d = 1 -> "1" [] d = 2 -> "2" [] d = 3 -> "3"
              [] d = 4 -> "4" [] d = 5 -> "5" [] d = 6 -> "6" [] d = 7 -> "7"
              [] d = 8 -> "8" [] OTHER -> "9"

RECURSIVE NatToStr(_)
NatToStr(n) == IF n < 10 THEN Digit(n) ELSE NatToStr(n \div 10) \o Digit(n % 10)

\* an int written to a stream, and std::to_string(int)
to_string(i) == IF i < 0 THEN "-" \o NatToStr(-i) ELSE NatToStr(i)

\* a double written to a stream with the default format (six significant
\* digits, trailing zeros and a trailing point dropped); h is in hundredths
\* and below a million, so that all its digits are significant and the
\* notation stays plain decimal
double_to_stream(h) ==
    LET a    == IF h < 0 THEN -h ELSE h
        frac == a % 100
    IN  (IF h < 0 THEN "-" ELSE "") \o NatToStr(a \div 100) \o
        (IF frac = 0 THEN ""
         ELSE IF frac % 10 = 0 THEN "." \o Digit(frac \div 10)
         ELSE "." \o Digit(frac \div 10) \o Digit(frac % 10))

\* invalidParameters without the test of the refresh rate
invalidParameters_anyRefreshRate(a) ==
    a.name = "" \/ a.width <= 0 \/ a.height <= 0

\* the validation at the top of applyMonitor
invalidParameters(a) ==
    a.name = "" \/ a.width <= 0 \/ a.height <= 0 \/ a.refreshRate <= 0

\* configArg with the position written as <posY>x<posX>
configArg_positionSwapped(a) ==
    to_string(a.width) \o "x" \o to_string(a.height) \o "@" \o
    to_string(a.refreshRate) \o "," \o to_string(a.posY) \o "x" \o
    to_string(a.posX) \o "," \o double_to_stream(a.scale)

\* std::string arg = cmd.str()
configArg(a) ==
    to_string(a.width) \o "x" \o to_string(a.height) \o "@" \o
    to_string(a.refreshRate) \o "," \o to_string(a.posX) \o "x" \o
    to_string(a.posY) \o "," \o double_to_stream(a.scale)

\* std::vector<std::string> argv
applyArgv(a) == <<"hyprctl", "keyword", "monitor", a.name \o "," \o configArg(a)>>

\* exitErrorText that prefers stdout to stderr
exitErrorText_stdoutFirst(run) ==
    LET e == IF run.stdout_str = "" THEN run.stderr_str ELSE run.stdout_str
    IN  IF e = "" THEN "hyprctl failed with exit code " \o to_string(run.exit_status)
        ELSE e

\* *error after a non-zero exit status
exitErrorText(run) ==
    LET e == IF run.stderr_str = "" THEN run.stdout_str ELSE run.stderr_str
    IN  IF e = "" THEN "hyprctl failed with exit code " \o to_string(run.exit_status)
        ELSE e

\* what is stored through the error pointer: nothing when it is null
storeError(a, text) == IF a.error THEN text ELSE ""

\* applyMonitor(name, width, height, refreshRate, posX, posY, scale, error);
\* a.error says that the error pointer is not null, and the string it points
\* to starts empty
applyMonitor(a, run) ==
    IF invalidParameters(a)
    THEN [ret |-> FALSE, error |-> storeError(a, "Invalid parameters"),
          invocations |-> <<>>]
    ELSE IF run.spawn = "error"
    THEN [ret |-> FALSE, error |-> storeError(a, run.what),
          invocations |-> <<applyArgv(a)>>]
    ELSE IF run.exit_status # 0
    THEN [ret |-> FALSE, error |-> storeError(a, exitErrorText(run)),
          invocations |-> <<applyArgv(a)>>]
    ELSE [ret |-> TRUE, error |-> "", invocations |-> <<applyArgv(a)>>]

----------------------------------------------------------------------------
(* ThemeManager: the theme file (src/src/theme_manager.cpp).  A color map  *)
(* (std::unordered_map<std::string, std::string>) is a function from the   *)
(* set of its keys; a file is the sequence of the lines std::getline reads *)
(* from it.                                                                *)

\* the character of s at position i (positions start at 1)
at(s, i) == SubSeq(s, i, i)

\* positions of s that hold a character outside " \t\r\n"
notWhitespace(s) == {i \in 1..Len(s) : at(s, i) \notin {" ", "\t", "\r", "\n"}}

least(S) == CHOOSE i \in S : \A k \in S : i <= k
greatest(S) == CHOOSE i \in S : \A k \in S : i >= k

\* trim(s): from the first to the last character that is not whitespace
trim(s) ==
    IF notWhitespace(s) = {} THEN ""
    ELSE SubSeq(s, least(notWhitespace(s)), greatest(notWhitespace(s)))

\* line.find('='): 0 stands for npos
find_eq(line) ==
    LET eqs == {i \in 1..Len(line) : at(line, i) = "="}
    IN  IF eqs = {} THEN 0 ELSE least(eqs)

\* the map without any entry
NoColors == [k \in {} |-> ""]

\* colors[key] = value
assign(colors, key, value) ==
    [k \in DOMAIN colors \cup {key} |-> IF k = key THEN value ELSE colors[k]]

\* the test on the value, with one character less demanded
looksLikeColor_threeCharacters(value) ==
    Len(value) >= 3 /\ (at(value, 1) = "#" \/ SubSeq(value, 1, 3) = "rgb")

\* the test on the value: at least four characters, '#' or "rgb" in front
looksLikeColor(value) ==
    Len(value) >= 4 /\
    (at(value, 1) = "#" \/ (Len(value) >= 3 /\ SubSeq(value, 1, 3) = "rgb"))

\* one turn of the getline loop of parseThemeFile
parseLine(colors, raw) ==
    LET line == trim(raw)
        eq   == find_eq(line)
    IN  IF line = "" THEN colors
        ELSE IF at(line, 1) = "#" THEN colors
        ELSE IF eq = 0 THEN colors
        ELSE LET key   == trim(SubSeq(line, 1, eq - 1))
                 value == trim(SubSeq(line, eq + 1, Len(line)))
             IN  IF key # "" /\ looksLikeColor(value)
                 THEN assign(colors, key, value)
                 ELSE colors

\* the getline loop of parseThemeFile
RECURSIVE parseLines(_, _)
parseLines(colors, lines) ==
    IF lines = <<>> THEN colors
    ELSE parseLines(parseLine(colors, Head(lines)), Tail(lines))

\* a file of the configuration directory; NoFile: nothing at that path
NoFile == [exists |-> FALSE, opens |-> FALSE, lines |-> <<>>]

\* the file at a path; "" is the path expandPath gives without HOME
fileAt(files, p) ==
    IF p = "theme/colors" THEN files.primary
    ELSE IF p = "theme.conf" THEN files.legacy
    ELSE NoFile

\* parseThemeFile(path)
parseThemeFile(files, p) ==
    IF ~fileAt(files, p).opens THEN NoColors
    ELSE parseLines(NoColors, fileAt(files, p).lines)

\* getThemePath(): paths are written relative to $HOME/.config/omarchy/,
\* "" is no path
getThemePath(files) ==
    IF files.primary.exists THEN "theme/colors"
    ELSE IF files.legacy.exists THEN "theme.conf"
    ELSE ""

\* fallbackColors()
fallbackColors ==
    [k \in {"background", "foreground", "primary", "secondary", "accent", "border"} |->
        CASE k = "background" -> "#1e1e2e"
          [] k = "foreground" -> "#cdd6f4"
          [] k = "primary"    -> "#89b4fa"
          [] k = "secondary"  -> "#f5c2e7"
          [] k = "accent"     -> "#a6e3a1"
          [] k = "border"     -> "#45475a"]

\* the lambda get of buildCSSFromColors
get(colors, key, def) == IF key \in DOMAIN colors THEN colors[key] ELSE def

\* slots that take the primary color from "accent" before "primary"
slots_accentFirst(colors) ==
    LET primary  == get(colors, "accent", get(colors, "primary", "#89b4fa"))
        buttonBg == get(colors, "secondary", "#313244")
        hover    == get(colors, "accent", primary)
    IN  [bg          |-> get(colors, "background", "#1e1e2e"),
         fg          |-> get(colors, "foreground", "#cdd6f4"),
         primary     |-> primary,
         border      |-> get(colors, "border", "#45475a"),
         buttonBg    |-> IF buttonBg = "" THEN "#313244" ELSE buttonBg,
         buttonHover |-> IF hover = "" THEN "#45475a" ELSE hover]

\* the colors buildCSSFromColors writes into the rules
slots(colors) ==
    LET default_accent == get(colors, "accent", "#89b4fa")
        primary        == get(colors, "primary", default_accent)
        buttonBg       == get(colors, "secondary", "#313244")
        buttonHover    == get(colors, "accent", primary)
    IN  [bg          |-> get(colors, "background", "#1e1e2e"),
         fg          |-> get(colors, "foreground", "#cdd6f4"),
         primary     |-> primary,
         border      |-> get(colors, "border", "#45475a"),
         buttonBg    |-> IF buttonBg = "" THEN "#313244" ELSE buttonBg,
         buttonHover |-> IF buttonHover = "" THEN "#45475a" ELSE buttonHover]

\* the text buildCSSFromColors writes to the stream
stylesheet(c) ==
    "window { background-color: " \o c.bg \o "; color: " \o c.fg \o "; }\n" \o
    "frame { margin: 10px; border: 1px solid " \o c.border \o
    "; border-radius: 8px; padding: 12px; }\n" \o
    "scale highlight { background-color: " \o c.primary \o "; }\n" \o
    "button { margin: 4px; padding: 8px; background-color: " \o c.buttonBg \o
    "; border: none; border-radius: 4px; color: " \o c.fg \o "; }\n" \o
    "button:hover { background-color: " \o c.buttonHover \o "; }\n" \o
    "label { font-size: 16px; margin: 0 10px; color: " \o c.fg \o "; }\n" \o
    "dropdown, combobox { background-color: " \o c.buttonBg \o "; color: " \o c.fg \o
    "; border: 1px solid " \o c.border \o "; border-radius: 4px; padding: 6px; }\n" \o
    "dropdown:hover, combobox:hover { background-color: " \o c.buttonHover \o "; }\n"

\* buildCSSFromColors(colors)
buildCSSFromColors(colors) == stylesheet(slots(colors))

\* loadThemeAndGetCSS that builds from the parsed map even when it is empty
loadThemeAndGetCSS_noFallback(files) ==
    buildCSSFromColors(parseThemeFile(files, getThemePath(files)))

\* loadThemeAndGetCSS()
loadThemeAndGetCSS(files) ==
    LET p      == getThemePath(files)
        colors == parseThemeFile(files, p)
    IN  IF p = "" THEN buildCSSFromColors(fallbackColors)
        ELSE IF DOMAIN colors = {} THEN buildCSSFromColors(fallbackColors)
        ELSE buildCSSFromColors(colors)


----------------------------------------------------------------------------
(* ThemeManager: the file monitor.  A ThemeManager is a record of its      *)
(* members m_monitor, m_monitor_conn and m_callback, and of what the GIO   *)
(* side holds for it: handlers is the set of signal handlers that are      *)
(* connected to a file monitor that is alive, subscribed and released      *)
(* count the handlers ever connected and ever taken away.  Monitors and    *)
(* connections are numbered from 1 (a handler has the number of its        *)
(* monitor), 0 is the null RefPtr and the empty connection; "" is the      *)
(* empty std::function.                                                    *)

\* ThemeManager::ThemeManager()
ThemeManager ==
    [m_monitor |-> 0, m_monitor_conn |-> 0, m_callback |-> "",
     handlers |-> {}, subscribed |-> 0, released |-> 0]

\* the handlers numbered id stop receiving: the connection is disconnected,
\* or the last reference to the monitor is dropped
release(t, id) ==
    [t EXCEPT !.handlers = {h \in @ : h.id # id},
              !.released = @ + Cardinality({h \in t.handlers : h.id = id})]

\* unwatchThemeFile with an empty body
unwatchThemeFile_nothing(t) == t

\* unwatchThemeFile(): m_monitor_conn.disconnect(); m_monitor.reset()
unwatchThemeFile(t) ==
    [release(release(t, t.m_monitor_conn), t.m_monitor)
        EXCEPT !.m_monitor_conn = 0, !.m_monitor = 0]

\* m_monitor = f->monitor_file(); m_monitor_conn = ....connect(lambda):
\* the assignment drops the reference to the monitor held before
subscribe(t, p) ==
    LET old == release(t, t.m_monitor)
        id  == t.subscribed + 1
    IN  [old EXCEPT !.m_monitor = id, !.m_monitor_conn = id,
                    !.handlers = @ \cup {[id |-> id, path |-> p]},
                    !.subscribed = id]

\* watchThemeFile that cleans up after it has connected the new handler
watchThemeFile_unwatchLast(t, callback, files, fails) ==
    LET stored == [t EXCEPT !.m_callback = callback]
    IN  IF getThemePath(files) = "" THEN stored
        ELSE IF fails THEN unwatchThemeFile(stored)
        ELSE unwatchThemeFile(subscribe(stored, getThemePath(files)))

\* watchThemeFile(callback); fails: monitor_file() throws a Glib::Error
watchThemeFile(t, callback, files, fails) ==
    LET stored == [t EXCEPT !.m_callback = callback]
    IN  IF getThemePath(files) = "" THEN stored
        ELSE IF fails THEN unwatchThemeFile(stored)
        ELSE subscribe(unwatchThemeFile(stored), getThemePath(files))

\* a catch clause for Gio::Error alone
caught_gioOnly(thrown) == thrown = "Gio::Error"

\* catch (const Glib::Error &): Gio::Error derives from Glib::Error
caught(thrown) == thrown \in {"Glib::Error", "Gio::Error"}

\* an exception leaves watchThemeFile; thrown: what monitor_file() throws,
\* "" when it returns
watchThemeFile_raises(files, thrown) ==
    getThemePath(files) # "" /\ thrown # "" /\ ~caught(thrown)

\* the callback main() registers: loadThemeAndGetCSS() resolves the theme
\* path again, parses the file there and hands the stylesheet to the provider
reload(files) ==
    [path |-> getThemePath(files), css |-> loadThemeAndGetCSS(files)]

\* ThemeManager::~ThemeManager(), and the members destroyed after it
destroy(t) == [unwatchThemeFile(t) EXCEPT !.m_callback = ""]

\* the test of the handler with CHANGES_DONE_HINT left out
relevantEvent_changedOnly(event) == event = "CHANGED"

\* the test of the handler on the kind of the event
relevantEvent(event) == event \in {"CHANGED", "CHANGES_DONE_HINT"}

\* the callbacks one connected handler invokes for an event
handler(t, event) ==
    IF relevantEvent(event) /\ t.m_callback # "" THEN <<t.m_callback>> ELSE <<>>

\* the callbacks invoked when the monitors of the file at p emit an event:
\* every connected handler of such a monitor runs
RECURSIVE emit(_, _, _)
emit(t, hs, event) ==
    IF hs = {} THEN <<>>
    ELSE LET h == CHOOSE x \in hs : TRUE
         IN  handler(t, event) \o emit(t, hs \ {h}, event)
signal_changed(t, p, event) == emit(t, {h \in t.handlers : h.path = p}, event)


----------------------------------------------------------------------------
(* What hyprctl monitors -j may print                                      *)

\* the "modes" member of a monitor
NoModes            == [t |-> "absent", items |-> <<>>]
ModesArray(items)  == [t |-> "array",  items |-> items]
ModesNotAnArray    == [t |-> "string", items |-> <<>>]

\* one entry of a "modes" array
ModeObject(width, height, newer, older) ==
    [t |-> "object", width |-> width, height |-> height,
     refreshRate |-> newer, refresh_rate |-> older]
ModeNotAnObject ==
    [t |-> "int", width |-> Absent, height |-> Absent,
     refreshRate |-> Absent, refresh_rate |-> Absent]

\* one element of the root array
MonitorObject(name, x, y, scale, width, height, newer, older, modes) ==
    [t |-> "object", name |-> name, x |-> x, y |-> y, scale |-> scale,
     width |-> width, height |-> height,
     refreshRate |-> newer, refresh_rate |-> older, modes |-> modes]
NotAnObject(type) ==
    [t |-> type, name |-> Absent, x |-> Absent, y |-> Absent, scale |-> Absent,
     width |-> Absent, height |-> Absent,
     refreshRate |-> Absent, refresh_rate |-> Absent, modes |-> NoModes]

\* sequences over S of length at most n
RECURSIVE SeqUpTo(_, _)
SeqUpTo(S, n) ==
    IF n = 0 THEN {<<>>}
    ELSE LET shorter == SeqUpTo(S, n - 1)
         IN  shorter \cup {Append(q, e) : q \in {r \in shorter : Len(r) = n - 1}, e \in S}

ModeEntries ==
    { ModeObject(JInt(1920), JInt(1080), JFloat(6000), Absent),
      ModeObject(JInt(1920), JInt(1080), JFloat(14399), JInt(60)),
      ModeObject(JInt(1280), JInt(720), Absent, JFloat(5994)),
      ModeObject(JInt(2560), JInt(1440), Absent, Absent),
      ModeObject(JInt(0), JInt(1080), JFloat(6000), Absent),
      ModeObject(Absent, JInt(1080), JInt(60), Absent),
      ModeObject(JInt(1920), JInt(-1080), JInt(60), Absent),
      ModeObject(JInt(1920), JInt(1080), JFloat(50), JInt(60)),
      ModeObject(JInt(1920), JInt(1080), JFloat(-5950), Absent),
      ModeObject(JStr("1920"), JInt(1080), JInt(60), Absent),
      ModeObject(JInt(1920), JInt(1080), JStr("60"), JInt(60)),
      ModeNotAnObject }

ModesValues == {NoModes, ModesNotAnArray} \cup
               {ModesArray(q) : q \in SeqUpTo(ModeEntries, MaxModes)}

FewModesValues ==
    { NoModes, ModesNotAnArray, ModesArray(<<>>),
      ModesArray(<<ModeObject(JInt(1280), JInt(720), Absent, JFloat(5994))>>),
      ModesArray(<<ModeObject(JInt(0), JInt(0), Absent, Absent)>>) }

NameValues == {Absent, JStr("eDP-1"), JStr(""), JInt(7)}

\* x, y, scale
PlaceValues ==
    { <<Absent, Absent, Absent>>,
      <<JInt(1920), JInt(-1080), JFloat(150)>>,
      <<JFloat(1050), JInt(0), JInt(2)>>,
      <<JBool(TRUE), JFloat(-1050), JFloat(125)>>,
      <<JStr("0"), JInt(0), JFloat(100)>>,
      <<JInt(0), JNull, JFloat(100)>>,
      <<JInt(0), JInt(0), JStr("1.0")>>,
      <<JInt(0), JInt(0), JBool(TRUE)>> }

\* width, height
SizeValues ==
    { <<Absent, Absent>>,
      <<JInt(1920), JInt(1080)>>,
      <<JFloat(192050), JInt(1080)>>,
      <<JInt(0), JInt(1080)>>,
      <<JInt(1920), JStr("1080")>> }

\* "refreshRate", "refresh_rate"
RateValues ==
    { <<Absent, Absent>>,
      <<JFloat(5995), Absent>>,
      <<Absent, JInt(144)>>,
      <<JFloat(7500), JInt(60)>>,
      <<JFloat(-250), Absent>>,
      <<JInt(0), JInt(60)>>,
      <<JStr("60"), JInt(60)>>,
      <<Absent, JNull>> }

\* one monitor, every member varied, with few kinds of "modes"
MonitorsByMember ==
    { MonitorObject(name, p[1], p[2], p[3], s[1], s[2], r[1], r[2], m) :
        name \in NameValues, p \in PlaceValues, s \in SizeValues,
        r \in RateValues, m \in FewModesValues }

\* one monitor, every "modes" array, with few kinds of current mode
MonitorsByModes ==
    { MonitorObject(JStr("eDP-1"), Absent, Absent, Absent, s[1], s[2], r[1], r[2], m) :
        s \in {<<Absent, Absent>>, <<JInt(1920), JInt(1080)>>, <<JInt(1920), JInt(0)>>},
        r \in {<<Absent, Absent>>, <<JFloat(5995), Absent>>, <<Absent, JFloat(99)>>},
        m \in ModesValues }

\* the elements of arrays of several monitors
MonitorsOfMany ==
    { MonitorObject(JStr("eDP-1"), JInt(0), JInt(0), JFloat(100), JInt(1920), JInt(1080),
                    JFloat(6000), Absent, NoModes),
      MonitorObject(JStr("DP-2"), Absent, Absent, Absent, Absent, Absent,
                    Absent, Absent, ModesArray(<<ModeObject(JInt(2560), JInt(1440), Absent, Absent)>>)),
      MonitorObject(JStr("eDP-1"), JInt(1920), JInt(0), JInt(2), JInt(2560), JInt(1440),
                    Absent, JInt(144), NoModes),
      MonitorObject(JStr(""), Absent, Absent, Absent, JInt(1920), JInt(1080),
                    Absent, Absent, NoModes),
      MonitorObject(Absent, JInt(0), JInt(0), JFloat(100), JInt(1920), JInt(1080),
                    JFloat(6000), Absent, NoModes),
      MonitorObject(JNull, JStr("0"), Absent, Absent, Absent, Absent,
                    Absent, Absent, ModesArray(<<ModeNotAnObject>>)),
      NotAnObject("string"),
      MonitorObject(JStr("HDMI-A-1"), JStr("0"), Absent, Absent, JInt(1920), JInt(1080),
                    Absent, Absent, NoModes),
      MonitorObject(JStr("DP-3"), Absent, Absent, Absent, JInt(1920), JInt(1080),
                    Absent, Absent, ModesArray(<<ModeNotAnObject>>)) }

JsonArray(items) == [t |-> "array", items |-> items]

JsonRoots ==
    {[t |-> type, items |-> <<>>] : type \in {"object", "string", "null"}}
    \cup {JsonArray(<<e>>) : e \in MonitorsByMember \cup MonitorsByModes}
    \cup {JsonArray(q) : q \in SeqUpTo(MonitorsOfMany, MaxMonitors)}

NoDocument == [parses |-> FALSE, root |-> [t |-> "null", items |-> <<>>]]

\* what the process runner does with hyprctl monitors -j
QueryRuns ==
    {[spawn |-> "error", what |-> "Failed to execute child process", exit_status |-> 0,
      stdout_str |-> "", stderr_str |-> "", doc |-> NoDocument]}
    \cup {[spawn |-> "ok", what |-> "", exit_status |-> e,
           stdout_str |-> out, stderr_str |-> "", doc |-> NoDocument] :
            e \in {0, 1}, out \in {"", "HYPRLAND_INSTANCE_SIGNATURE not set!"}}
    \cup {[spawn |-> "ok", what |-> "", exit_status |-> e,
           stdout_str |-> "<json>", stderr_str |-> "",
           doc |-> [parses |-> TRUE, root |-> r]] :
            e \in {0, 1}, r \in JsonRoots}

----------------------------------------------------------------------------
(* What applyMonitor may be called with and what hyprctl keyword may do    *)

ApplyArgs ==
    [name : {"", "eDP-1", "DP-2"}, width : {-1, 0, 1920}, height : {0, 1080},
     refreshRate : {0, 60, 144}, posX : {-1920, 0, 2560}, posY : {0, 1080},
     scale : {-50, 5, 100, 125, 150}, error : BOOLEAN]

NoArgs == [name |-> "", width |-> 0, height |-> 0, refreshRate |-> 0,
           posX |-> 0, posY |-> 0, scale |-> 0, error |-> FALSE]

ApplyRuns ==
    {[spawn |-> "error", what |-> "Failed to execute child process", exit_status |-> 0,
      stdout_str |-> "", stderr_str |-> "", doc |-> NoDocument]}
    \cup {[spawn |-> "ok", what |-> "", exit_status |-> e,
           stdout_str |-> out, stderr_str |-> err, doc |-> NoDocument] :
            e \in {0, 1, 256}, out \in {"", "ok"}, err \in {"", "invalid monitor"}}

----------------------------------------------------------------------------
(* What the theme files may hold and what the ThemeManager may be given    *)

\* Longest theme file, in lines.
MaxLines == 2
\* Most file monitors a ThemeManager creates in its life.
MaxSubscriptions == 2

ThemeLines ==
    { "", " \t ", "# background=#000000", "background=#111111",
      "  foreground = #eeeeee\r", "background=#222222", "accent=rgb(166, 227, 161)",
      "primary=blue", "border=#fff", "border=#ff", "secondary=rgb",
      "=#333333", "no separator", "link=#a=b", "wallpaper= ~/bg.png" }

ThemeFiles ==
    {NoFile, [exists |-> TRUE, opens |-> FALSE, lines |-> <<>>]}
    \cup {[exists |-> TRUE, opens |-> TRUE, lines |-> q] : q \in SeqUpTo(ThemeLines, MaxLines)}

LegacyFiles ==
    { NoFile,
      [exists |-> TRUE, opens |-> FALSE, lines |-> <<>>],
      [exists |-> TRUE, opens |-> TRUE, lines |-> <<"# omarchy", "foreground=#cccccc">>] }

NoFiles == [primary |-> NoFile, legacy |-> NoFile]

FileSystems == [primary : ThemeFiles, legacy : LegacyFiles]

ThemePaths == {"theme/colors", "theme.conf"}

\* the maps buildCSSFromColors may be given: any of seven keys, each with
\* one of three values, the empty string among them
ThemeKeys == {"background", "foreground", "primary", "secondary", "accent", "border", "cursor"}
ThemeMaps ==
    { [k \in {x \in ThemeKeys : f[x] # "<no entry>"} |-> f[k]] :
        f \in [ThemeKeys -> {"<no entry>", "", "#111111", "rgb(238, 238, 238)"}] }

\* the callbacks watchThemeFile may be given: "" is an empty std::function,
\* "reload" the lambda of main()
Callbacks == {"", "reload", "restyle"}

\* what monitor_file() may throw, "" when it returns a monitor
MonitorFileThrows == {"", "Gio::Error", "Glib::Error"}

\* Gio::FileMonitor::Event
Events == {"CHANGED", "CHANGES_DONE_HINT", "DELETED", "CREATED",
           "ATTRIBUTE_CHANGED", "RENAMED"}

\* the theme files of the watcher: there or not, their lines do not matter
ThereOrNot == {NoFile, [exists |-> TRUE, opens |-> TRUE, lines |-> <<>>]}

\* the record of the step just taken
Step(call, outcome, p, event, before) ==
    [call |-> call, outcome |-> outcome, path |-> p, event |-> event, prev |-> before.outcome]
NoStep == [call |-> "", outcome |-> "", path |-> "", event |-> "", prev |-> ""]

----------------------------------------------------------------------------
(* The calls.  getMonitors and applyMonitor keep nothing between calls     *)
(* (DisplaySettings is a namespace of free functions), so a behaviour is   *)
(* one call: the initial state holds the call about to be made, with its   *)
(* arguments and with what the process runner is going to do.              *)

VARIABLES
    pc,           \* "call" before the call, "return" after it
    op,           \* the function called
    args,         \* the arguments of applyMonitor
    run,          \* what the process runner does in the call
    invocations,  \* the argv of every process invocation of the call
    monitors,     \* the vector getMonitors returned
    raised,       \* an exception left the call
    ret,          \* the value applyMonitor returned
    error,        \* the string behind applyMonitor's error pointer
    files,        \* the theme files under $HOME/.config/omarchy/
    path,         \* the path parseThemeFile is called with
    colors,       \* the color map: given to buildCSSFromColors, or returned by parseThemeFile
    css,          \* the stylesheet returned
    theme_mgr,    \* the ThemeManager of main() and its handlers
    last,         \* the step just taken
    invoked,      \* the callbacks invoked in the step just taken
    stopped,      \* unwatchThemeFile has run and no monitor was set up since
    destroyed     \* the ThemeManager is destroyed

displayVars == <<args, run, invocations, monitors, raised, ret, error>>
themeVars == <<files, path, colors, css>>
watchVars == <<theme_mgr, last, invoked, stopped, destroyed>>
vars == <<pc, op, args, run, invocations, monitors, raised, ret, error,
          files, path, colors, css, theme_mgr, last, invoked, stopped, destroyed>>

NoRun == [spawn |-> "ok", what |-> "", exit_status |-> 0,
          stdout_str |-> "", stderr_str |-> "", doc |-> NoDocument]

\* no call of DisplaySettings
DisplayAtRest ==
    /\ args = NoArgs /\ run = NoRun
    /\ invocations = <<>> /\ monitors = <<>>
    /\ raised = FALSE /\ ret = FALSE /\ error = ""

\* no call of the theme functions
ThemeAtRest == files = NoFiles /\ path = "" /\ colors = NoColors /\ css = ""

\* a ThemeManager just constructed
WatchAtRest ==
    /\ theme_mgr = ThemeManager /\ last = NoStep /\ invoked = <<>>
    /\ stopped = FALSE /\ destroyed = FALSE

Init ==
    /\ pc = "call"
    /\ \/ op = "getMonitors" /\ args = NoArgs /\ run \in QueryRuns
       \/ op = "applyMonitor" /\ args \in ApplyArgs /\ run \in ApplyRuns
    /\ invocations = <<>>
    /\ monitors = <<>>
    /\ raised = FALSE
    /\ ret = FALSE
    /\ error = ""
    /\ ThemeAtRest
    /\ WatchAtRest

\* DisplaySettings::getMonitors()
GetMonitors ==
    /\ pc = "call" /\ op = "getMonitors"
    /\ pc' = "return"
    /\ invocations' = <<(<<"hyprctl", "monitors", "-j">>)>>
    /\ monitors' = getMonitors(run).result
    /\ raised' = getMonitors(run).raised
    /\ UNCHANGED <<op, args, run, ret, error>>
    /\ UNCHANGED <<themeVars, watchVars>>

\* DisplaySettings::applyMonitor(name, width, height, refreshRate, posX, posY,
\* scale, error)
ApplyMonitor ==
    /\ pc = "call" /\ op = "applyMonitor"
    /\ pc' = "return"
    /\ invocations' = applyMonitor(args, run).invocations
    /\ ret' = applyMonitor(args, run).ret
    /\ error' = applyMonitor(args, run).error
    /\ UNCHANGED <<op, args, run, monitors, raised>>
    /\ UNCHANGED <<themeVars, watchVars>>

Next == GetMonitors \/ ApplyMonitor

Spec == Init /\ [][Next]_vars

----------------------------------------------------------------------------
(* The theme functions.  parseThemeFile, buildCSSFromColors and            *)
(* loadThemeAndGetCSS read no member of the ThemeManager, so a behaviour   *)
(* is one call again.                                                      *)

InitTheme ==
    /\ pc = "call"
    /\ \/ op = "parseThemeFile" /\ files \in FileSystems /\ path \in ThemePaths
          /\ colors = NoColors
       \/ op = "buildCSSFromColors" /\ files = NoFiles /\ path = ""
          /\ colors \in ThemeMaps
       \/ op = "loadThemeAndGetCSS" /\ files \in FileSystems /\ path = ""
          /\ colors = NoColors
    /\ css = ""
    /\ DisplayAtRest
    /\ WatchAtRest

\* ThemeManager::parseThemeFile(path)
ParseThemeFile ==
    /\ pc = "call" /\ op = "parseThemeFile"
    /\ pc' = "return"
    /\ colors' = parseThemeFile(files, path)
    /\ UNCHANGED <<op, files, path, css, displayVars, watchVars>>

\* ThemeManager::buildCSSFromColors(colors)
BuildCSSFromColors ==
    /\ pc = "call" /\ op = "buildCSSFromColors"
    /\ pc' = "return"
    /\ css' = buildCSSFromColors(colors)
    /\ UNCHANGED <<op, files, path, colors, displayVars, watchVars>>

\* ThemeManager::loadThemeAndGetCSS()
LoadThemeAndGetCSS ==
    /\ pc = "call" /\ op = "loadThemeAndGetCSS"
    /\ pc' = "return"
    /\ css' = loadThemeAndGetCSS(files)
    /\ UNCHANGED <<op, files, path, colors, displayVars, watchVars>>

NextTheme == ParseThemeFile \/ BuildCSSFromColors \/ LoadThemeAndGetCSS

SpecTheme == InitTheme /\ [][NextTheme]_vars

----------------------------------------------------------------------------
(* The file monitor.  The ThemeManager lives as long as main(): between    *)
(* the calls of its owner the theme files come and go and the monitors     *)
(* emit their events on the event loop.                                    *)

InitWatch ==
    /\ pc = "run" /\ op = "ThemeManager"
    /\ files \in [primary : ThereOrNot, legacy : ThereOrNot]
    /\ path = "" /\ colors = NoColors /\ css = ""
    /\ DisplayAtRest
    /\ WatchAtRest

\* theme_mgr.watchThemeFile(callback)
WatchThemeFile ==
    \E callback \in Callbacks, thrown \in MonitorFileThrows :
      LET fails == thrown # "" IN
        /\ ~destroyed
        /\ theme_mgr.subscribed < MaxSubscriptions
        /\ theme_mgr' = watchThemeFile(theme_mgr, callback, files, fails)
        /\ raised' = watchThemeFile_raises(files, thrown)
        /\ last' = Step("watchThemeFile",
                        IF getThemePath(files) = "" THEN "no file"
                        ELSE IF fails THEN "failed" ELSE "subscribed",
                        getThemePath(files), "", last)
        /\ invoked' = <<>>
        /\ stopped' = IF getThemePath(files) = "" THEN stopped ELSE fails
        /\ UNCHANGED <<pc, op, destroyed, themeVars>>
        /\ UNCHANGED <<args, run, invocations, monitors, ret, error>>

\* theme_mgr.unwatchThemeFile()
UnwatchThemeFile ==
    /\ ~destroyed
    /\ theme_mgr' = unwatchThemeFile(theme_mgr)
    /\ last' = Step("unwatchThemeFile", "unwatched", "", "", last)
    /\ invoked' = <<>>
    /\ stopped' = TRUE
    /\ UNCHANGED <<pc, op, destroyed, themeVars, displayVars>>

\* theme_mgr goes out of scope
Destroy ==
    /\ ~destroyed
    /\ theme_mgr' = destroy(theme_mgr)
    /\ last' = Step("~ThemeManager", "destroyed", "", "", last)
    /\ invoked' = <<>>
    /\ stopped' = TRUE
    /\ destroyed' = TRUE
    /\ UNCHANGED <<pc, op, themeVars, displayVars>>

\* the file at p changes and every monitor of p emits signal_changed(event)
FileEvent ==
    \E p \in ThemePaths, event \in Events :
        /\ invoked' = signal_changed(theme_mgr, p, event)
        /\ last' = Step("signal_changed", "event", p, event, last)
        /\ IF \E i \in 1..Len(invoked') : invoked'[i] = "reload"
           THEN path' = reload(files).path /\ css' = reload(files).css
           ELSE UNCHANGED <<path, css>>
        /\ UNCHANGED <<pc, op, files, colors, theme_mgr, stopped, destroyed, displayVars>>

\* a theme file is created or deleted
SetFiles ==
    \E f \in [primary : ThereOrNot, legacy : ThereOrNot] :
        /\ f # files
        /\ files' = f
        /\ last' = Step("files", "files", "", "", last)
        /\ invoked' = <<>>
        /\ UNCHANGED <<pc, op, path, colors, css, theme_mgr, stopped, destroyed, displayVars>>

NextWatch == WatchThemeFile \/ UnwatchThemeFile \/ Destroy \/ FileEvent \/ SetFiles

SpecWatch == InitWatch /\ [][NextWatch]_vars

----------------------------------------------------------------------------
(* Vocabulary of the properties                                            *)

Returned(f) == pc = "return" /\ op = f

\* the query command ran, exited with 0 and printed a JSON array
ArrayArrived ==
    /\ run.spawn = "ok" /\ run.exit_status = 0 /\ run.stdout_str # ""
    /\ run.doc.parses /\ run.doc.root.t = "array"

Elements == run.doc.root.items

HasStringName(e) == e.t = "object" /\ e.name.t = "string"

\* the elements a MonitorInfo is owed to, in the order of the array
NamedElements == SelectSeq(Elements, HasStringName)

Positive(d) == d.width >= 1 /\ d.height >= 1 /\ d.refreshRate >= 1

\* the candidate modes of an element, before any is discarded
Candidates(e) ==
    IF e.modes.t = "array"
    THEN [i \in 1..Len(e.modes.items) |-> mode(e.modes.items[i])]
    ELSE <<>>

\* getMonitors returned a vector with one entry per named element
Answered ==
    /\ Returned("getMonitors") /\ ArrayArrived /\ ~raised
    /\ Len(monitors) = Len(NamedElements)

ValidArgs ==
    args.name # "" /\ args.width >= 1 /\ args.height >= 1 /\ args.refreshRate >= 1

\* the decimal text of the numbers applyMonitor is called with
DecimalText(i) ==
    CASE i = -1920 -> "-1920" [] i = -1 -> "-1" [] i = 0 -> "0" [] i = 1 -> "1"
      [] i = 60 -> "60" [] i = 144 -> "144" [] i = 256 -> "256"
      [] i = 1080 -> "1080" [] i = 1920 -> "1920" [] i = 2560 -> "2560"

\* the plain decimal text of the scales applyMonitor is called with
ScaleText(h) ==
    CASE h = -50 -> "-0.5" [] h = 5 -> "0.05" [] h = 100 -> "1"
      [] h = 125 -> "1.25" [] h = 150 -> "1.5"

IsPartOf(part, text) ==
    \E i \in 1..(Len(text) - Len(part) + 1) : SubSeq(text, i, i + Len(part) - 1) = part

\* k is the number h (in hundredths) without its fraction
IsTruncationOf(k, h) ==
    IF h >= 0 THEN k >= 0 /\ k * 100 <= h /\ h < (k + 1) * 100
    ELSE k <= 0 /\ k * 100 >= h /\ h > (k - 1) * 100

Hundredths(v) == IF v.t = "int" THEN v.n * 100 ELSE v.n

\* r is the refresh rate the rule gives for the object j
IsRateOf(r, j) ==
    IF j.refreshRate.t # "absent" THEN IsTruncationOf(r, Hundredths(j.refreshRate))
    ELSE IF j.refresh_rate.t # "absent" THEN IsTruncationOf(r, Hundredths(j.refresh_rate))
    ELSE r = 60

----------------------------------------------------------------------------
(* Properties                                                              *)

\* C1: getMonitors never raises to its caller; an element that fails to
\* parse is skipped and every well-formed element is still returned.
C1_NeverRaises ==
    Returned("getMonitors") =>
        /\ ~raised
        /\ ArrayArrived =>
             monitors = outOf(SelectSeq(parsedElements(Elements), isTrue))

\* C2: getMonitors returns the empty sequence when the command cannot be
\* started, exits with a non-zero status, prints nothing, prints text that
\* is not JSON, or prints JSON whose root is not an array.
C2_EmptyOnFailure ==
    (/\ Returned("getMonitors")
     /\ \/ run.spawn = "error"
        \/ run.exit_status # 0
        \/ run.stdout_str = ""
        \/ ~run.doc.parses
        \/ run.doc.root.t # "array")
    => ~raised /\ monitors = <<>>

C2_Witness ==
    /\ Returned("getMonitors")
    /\ run.spawn = "ok" /\ run.exit_status = 0 /\ run.doc.parses
    /\ run.doc.root.t = "object"
    /\ ~raised /\ monitors = <<>>

\* C3: for every JSON array, getMonitors returns exactly one MonitorInfo per
\* element that has a string name, in the order of the array, and none for
\* the other elements.
C3_OnePerNamedElement ==
    (Returned("getMonitors") /\ ArrayArrived) =>
        /\ Len(monitors) = Len(NamedElements)
        /\ \A k \in 1..Len(NamedElements) :
             k <= Len(monitors) => monitors[k].name = NamedElements[k].name.s

\* C4: applyMonitor with an empty name, or with a width, height or refresh
\* rate that is not strictly positive, returns failure with a non-empty
\* error message (for a caller that passes an error string) and invokes no
\* process.
C4_RejectsInvalid ==
    (Returned("applyMonitor") /\ ~ValidArgs) =>
        /\ ret = FALSE
        /\ args.error => error # ""
        /\ invocations = <<>>

C4_Witness ==
    /\ Returned("applyMonitor")
    /\ args.name = "eDP-1" /\ args.width = 1920 /\ args.height = 1080
    /\ args.refreshRate = 0 /\ args.error
    /\ ret = FALSE /\ error = "Invalid parameters" /\ invocations = <<>>

C6_ResultOfInvocation ==
    (Returned("applyMonitor") /\ ValidArgs) =>
        /\ run.spawn = "error" => ret = FALSE /\ (args.error => error = run.what)
        /\ (run.spawn = "ok" /\ run.exit_status = 0) => ret = TRUE
        /\ (run.spawn = "ok" /\ run.exit_status # 0) =>
             /\ ret = FALSE
             /\ args.error =>
                  IF run.stderr_str # "" THEN error = run.stderr_str
                  ELSE IF run.stdout_str # "" THEN error = run.stdout_str
                  ELSE error # "" /\ IsPartOf(DecimalText(run.exit_status), error)

C6_Witness ==
    /\ Returned("applyMonitor") /\ ValidArgs /\ args.error
    /\ run.spawn = "ok" /\ run.exit_status = 256
    /\ run.stderr_str = "" /\ run.stdout_str = ""
    /\ ret = FALSE /\ error = "hyprctl failed with exit code 256"

\* C7: a returned MonitorInfo whose element has no modes array, an empty one
\* or one with invalid entries only, and whose current mode has a strictly
\* positive width, height and refresh rate, has modes = [current].
C7_FallbackToCurrent ==
    Answered =>
        \A k \in 1..Len(monitors) :
            (/\ \A i \in 1..Len(Candidates(NamedElements[k])) :
                    ~Positive(Candidates(NamedElements[k])[i])
             /\ Positive(monitors[k].current))
            => monitors[k].modes = <<monitors[k].current>>

C7_Witness ==
    /\ Answered /\ Len(monitors) = 1
    /\ Len(Candidates(NamedElements[1])) = 2
    /\ Positive(monitors[1].current)
    /\ monitors[1].modes = <<monitors[1].current>>

\* C8: every entry of the modes of a returned MonitorInfo has a strictly
\* positive width, height and refresh rate; the entries are the candidates
\* of the element that are strictly positive, in their order, and when there
\* is none, nothing or the strictly positive current mode alone.
C8_ModesPositive ==
    Answered =>
        \A k \in 1..Len(monitors) :
            LET kept == SelectSeq(Candidates(NamedElements[k]), Positive)
            IN  /\ \A i \in 1..Len(monitors[k].modes) : Positive(monitors[k].modes[i])
                /\ kept # <<>> => monitors[k].modes = kept
                /\ kept = <<>> => monitors[k].modes \in {<<>>, <<monitors[k].current>>}

C8_Witness ==
    /\ Answered /\ Len(monitors) = 1
    /\ Len(Candidates(NamedElements[1])) = 2
    /\ ~Positive(Candidates(NamedElements[1])[1])
    /\ monitors[1].modes = <<Candidates(NamedElements[1])[2]>>
    /\ monitors[1].modes # <<monitors[1].current>>

\* C9: the refresh rate of the current mode and of every mode is taken from
\* "refreshRate" if present, else from "refresh_rate" if present, else it is
\* 60; a value taken from a field loses its fraction (toward zero).
C9_RefreshRate ==
    Answered =>
        \A k \in 1..Len(monitors) :
            LET e    == NamedElements[k]
                kept == SelectSeq(IF e.modes.t = "array" THEN e.modes.items ELSE <<>>,
                                  LAMBDA m : Positive(mode(m)))
            IN  /\ IsRateOf(monitors[k].current.refreshRate, e)
                /\ kept # <<>> =>
                     /\ Len(monitors[k].modes) = Len(kept)
                     /\ \A i \in 1..Len(kept) :
                          IsRateOf(monitors[k].modes[i].refreshRate, kept[i])

C9_Witness ==
    /\ Answered /\ Len(monitors) = 1
    /\ NamedElements[1].refreshRate = JFloat(-250)
    /\ monitors[1].current.refreshRate = -2
    /\ Len(monitors[1].modes) = 1
    /\ NamedElements[1].modes.items[1].refresh_rate = JFloat(5994)
    /\ monitors[1].modes[1].refreshRate = 59

\* C10: every MonitorInfo getMonitors returns has a non-empty name, and no
\* two MonitorInfo of one result have the same name.
C10_NamesUnique ==
    Returned("getMonitors") =>
        /\ \A k \in 1..Len(monitors) : monitors[k].name # ""
        /\ \A k, l \in 1..Len(monitors) :
             k # l => monitors[k].name # monitors[l].name


----------------------------------------------------------------------------
(* Vocabulary of the theme properties: what a theme file says, told from   *)
(* its lines without the parser.                                           *)

Whitespace == {" ", "\t", "\r", "\n"}

RECURSIVE StripLeft(_)
StripLeft(s) ==
    IF s # "" /\ at(s, 1) \in Whitespace THEN StripLeft(SubSeq(s, 2, Len(s))) ELSE s

RECURSIVE StripRight(_)
StripRight(s) ==
    IF s # "" /\ at(s, Len(s)) \in Whitespace THEN StripRight(SubSeq(s, 1, Len(s) - 1)) ELSE s

Strip(s) == StripRight(StripLeft(s))

\* the text before the first "=" of s, all of s when it has none
RECURSIVE BeforeSeparator(_)
BeforeSeparator(s) ==
    IF s = "" \/ at(s, 1) = "=" THEN ""
    ELSE at(s, 1) \o BeforeSeparator(SubSeq(s, 2, Len(s)))

HasSeparator(s) == \E i \in 1..Len(s) : at(s, i) = "="

KeyOf(raw) == Strip(BeforeSeparator(Strip(raw)))

ValueOf(raw) ==
    Strip(SubSeq(Strip(raw), Len(BeforeSeparator(Strip(raw))) + 2, Len(Strip(raw))))

StartsWith(s, prefix) ==
    Len(s) >= Len(prefix) /\ SubSeq(s, 1, Len(prefix)) = prefix

\* the line contributes a pair
Contributes(raw) ==
    /\ Strip(raw) # ""
    /\ ~StartsWith(Strip(raw), "#")
    /\ HasSeparator(Strip(raw))
    /\ KeyOf(raw) # ""
    /\ Len(ValueOf(raw)) >= 4
    /\ StartsWith(ValueOf(raw), "#") \/ StartsWith(ValueOf(raw), "rgb")

\* the pairs of the lines, the last line of a key winning
PairsOf(lines) ==
    LET contributing == {i \in 1..Len(lines) : Contributes(lines[i])}
        lastOf(k) == greatest({i \in contributing : KeyOf(lines[i]) = k})
    IN  [k \in {KeyOf(lines[i]) : i \in contributing} |-> ValueOf(lines[lastOf(k)])]

\* the theme file the lookup picks: the primary one if it exists
Resolved ==
    IF files.primary.exists THEN files.primary
    ELSE IF files.legacy.exists THEN files.legacy ELSE NoFile

\* s holds part somewhere
Holds(s, part) ==
    \E i \in 1..(Len(s) - Len(part) + 1) : SubSeq(s, i, i + Len(part) - 1) = part

\* the role of the map, or the default when the map has no such key
Role(key, default) == IF key \in DOMAIN colors THEN colors[key] ELSE default

\* the default when the value is the empty string
OrWhenEmpty(value, default) == IF value = "" THEN default ELSE value

\* the six slots as the roles of the map resolve them
Resolution ==
    [bg          |-> Role("background", "#1e1e2e"),
     fg          |-> Role("foreground", "#cdd6f4"),
     primary     |-> Role("primary", Role("accent", "#89b4fa")),
     border      |-> Role("border", "#45475a"),
     buttonBg    |-> OrWhenEmpty(Role("secondary", "#313244"), "#313244"),
     buttonHover |-> OrWhenEmpty(Role("accent", Role("primary", Role("accent", "#89b4fa"))),
                                 "#45475a")]

Roles == {"background", "foreground", "primary", "secondary", "accent", "border"}

----------------------------------------------------------------------------
(* Properties of the theme functions                                       *)

\* C11: the stylesheet built from the empty map is, character for character,
\* the stylesheet built from the fallback palette.
C11_EmptyIsFallback ==
    Returned("buildCSSFromColors") /\ DOMAIN colors = {}
        => css = buildCSSFromColors(fallbackColors)

\* C12: loading a theme file that sets only background and foreground gives
\* those two colors and, in every other slot, what the fallback palette gives.
C12_UnsetSlotsFromFallback ==
    ( /\ Returned("loadThemeAndGetCSS")
      /\ Resolved.opens
      /\ DOMAIN PairsOf(Resolved.lines) = {"background", "foreground"} )
        => css = stylesheet([slots(fallbackColors)
                                EXCEPT !.bg = PairsOf(Resolved.lines).background,
                                       !.fg = PairsOf(Resolved.lines).foreground])

\* C13: parseThemeFile returns exactly the pairs of the lines that, trimmed,
\* are not empty, do not start with "#", have an "=", a non-empty trimmed key
\* before the first "=" and after it a trimmed value of four characters or
\* more starting with "#" or "rgb"; the last line of a key wins; a file that
\* cannot be opened gives the empty map.
C13_ParsedPairs ==
    Returned("parseThemeFile")
        => colors = IF fileAt(files, path).opens
                    THEN PairsOf(fileAt(files, path).lines) ELSE NoColors

C13_Witness ==
    /\ Returned("parseThemeFile")
    /\ path = "theme/colors"
    /\ files.primary.lines = <<"background=#111111", "background=#222222">>
    /\ colors = [k \in {"background"} |-> "#222222"]

\* C14: the slots come from the roles in the stated order (primary from
\* primary, then accent, then #89b4fa; buttonBackground from secondary, then
\* #313244, never empty; buttonHover from accent, then the primary slot, then
\* #45475a when empty), and keys that are not roles change nothing.
C14_SlotResolution ==
    Returned("buildCSSFromColors")
        => /\ css = stylesheet(Resolution)
           /\ Resolution.buttonBg # ""
           /\ css = buildCSSFromColors([k \in DOMAIN colors \cap Roles |-> colors[k]])

C14_Witness ==
    /\ Returned("buildCSSFromColors")
    /\ DOMAIN colors = {"accent", "secondary", "cursor"}
    /\ colors.accent = "#111111" /\ colors.secondary = ""
    /\ Holds(css, "scale highlight { background-color: #111111; }")
    /\ Holds(css, "button { margin: 4px; padding: 8px; background-color: #313244;")
    /\ Holds(css, "button:hover { background-color: #111111; }")

\* C15: loadThemeStylesheet always returns a stylesheet: the one of the
\* fallback palette when there is no theme file, when the file cannot be
\* opened or when it gives no pair, and the one of the parsed map otherwise.
C15_LoadOrFallback ==
    Returned("loadThemeAndGetCSS")
        => css = IF \/ ~Resolved.exists
                    \/ ~Resolved.opens
                    \/ DOMAIN PairsOf(Resolved.lines) = {}
                 THEN buildCSSFromColors(fallbackColors)
                 ELSE buildCSSFromColors(PairsOf(Resolved.lines))

C15_Witness ==
    /\ Returned("loadThemeAndGetCSS")
    /\ files.primary.opens
    /\ files.primary.lines = <<"primary=blue", "border=#ff">>
    /\ files.legacy.opens
    /\ css = buildCSSFromColors(fallbackColors)

----------------------------------------------------------------------------
(* Vocabulary of the watcher properties                                    *)

\* the subscriptions that are active: the handlers connected to a live monitor
Subscriptions == theme_mgr.handlers

Active == Subscriptions # {}
Idle == Subscriptions = {}

\* the step just taken is the call f of the owner
Called(f) == last.call = f

\* the step just taken is a notification of the file at a watched path
Notified == Called("signal_changed") /\ \E h \in Subscriptions : h.path = last.path

ContentKinds == {"CHANGED", "CHANGES_DONE_HINT"}

----------------------------------------------------------------------------
(* Properties of the watcher                                               *)

\* C16: whatever the calls, at most one subscription is active, the active
\* ones being those established and not released; after two watchThemeFile
\* calls in a row that each set up a monitor exactly one is active and one
\* less was released than established.
C16_AtMostOneSubscription ==
    /\ Cardinality(Subscriptions) <= 1
    /\ Cardinality(Subscriptions) = theme_mgr.subscribed - theme_mgr.released
    /\ ( Called("watchThemeFile") /\ last.outcome = "subscribed" /\ last.prev = "subscribed" )
           => /\ Cardinality(Subscriptions) = 1
              /\ theme_mgr.released = theme_mgr.subscribed - 1

C16_Witness ==
    /\ Called("watchThemeFile") /\ last.outcome = "subscribed" /\ last.prev = "subscribed"
    /\ theme_mgr.subscribed = 2 /\ theme_mgr.released = 1
    /\ Subscriptions = {[id |-> 2, path |-> last.path]}

\* C17: when watchThemeFile returns having found no theme file, no
\* subscription is active and no monitor is held, whatever was active before
\* the call.
C17_IdleWithoutThemeFile ==
    ( Called("watchThemeFile") /\ last.outcome = "no file" )
        => Idle /\ theme_mgr.m_monitor = 0

\* C18: once unwatchThemeFile has returned (called by the owner, by
\* watchThemeFile or by the destructor) and until a watchThemeFile sets up a
\* monitor, no step invokes a callback.
C18_SilentAfterStop == [][stopped => invoked' = <<>>]_vars

C18_Witness ==
    /\ stopped
    /\ Called("signal_changed") /\ last.event = "CHANGED" /\ last.path = "theme/colors"
    /\ files.primary.exists
    /\ theme_mgr.released >= 1
    /\ theme_mgr.m_callback # ""
    /\ invoked = <<>>

\* C19: a notification arriving while a subscription is active and a
\* callback is stored invokes that callback exactly once if its kind is
\* CHANGED or CHANGES_DONE_HINT, and otherwise invokes nothing; it leaves the
\* ThemeManager as it was.
C19_OnlyContentKinds ==
    [][ ( /\ last'.call = "signal_changed"
          /\ \E h \in Subscriptions : h.path = last'.path
          /\ theme_mgr.m_callback # "" )
            => /\ invoked' = IF last'.event \in ContentKinds
                             THEN <<theme_mgr.m_callback>> ELSE <<>>
               /\ theme_mgr' = theme_mgr ]_vars

C19_Witness ==
    /\ Notified /\ last.event = "CHANGES_DONE_HINT"
    /\ theme_mgr.m_callback = "reload"
    /\ invoked = <<"reload">>

\* C20: when unwatchThemeFile returns no subscription is active and the
\* monitor, the connection and the callback are cleared; a callback is stored
\* only while a subscription is active.
C20_CallbackOnlyWhileActive ==
    /\ Called("unwatchThemeFile")
          => /\ Idle
             /\ theme_mgr.m_monitor = 0 /\ theme_mgr.m_monitor_conn = 0
             /\ theme_mgr.m_callback = ""
    /\ theme_mgr.m_callback # "" => Active

\* C21: when monitor_file() throws inside watchThemeFile, watchThemeFile
\* returns without an exception and the watcher is Idle: no monitor and no
\* connection are held and no notification of any path and kind invokes a
\* callback.
C21_IdleWhenMonitoringFails ==
    ( Called("watchThemeFile") /\ last.outcome = "failed" )
        => /\ ~raised
           /\ Idle
           /\ theme_mgr.m_monitor = 0 /\ theme_mgr.m_monitor_conn = 0
           /\ \A p \in ThemePaths, event \in Events :
                 signal_changed(theme_mgr, p, event) = <<>>

C21_Witness ==
    /\ Called("watchThemeFile") /\ last.outcome = "failed" /\ last.prev = "subscribed"
    /\ theme_mgr.subscribed = 1 /\ theme_mgr.released = 1
    /\ theme_mgr.m_callback = "reload"
    /\ ~raised /\ Idle

\* C22: whenever a subscription is active, the path it watches is the path
\* getThemePath() returns now; so the reload a notification triggers reads
\* the file whose monitor emitted the notification.
C22_WatchesResolvedPath ==
    /\ \A h \in Subscriptions : h.path = getThemePath(files)
    /\ ( Notified /\ invoked = <<"reload">> ) => path = last.path

====
